---- MODULE Spec2Model ----
(***************************************************************************)
(* Console redirection of ballistica's embedded Python bootstrap:          *)
(* _BAConsoleRedirect (src/src/meta/bameta/python_embedded/bootstrap.py).  *)
(* One redirect object per stream (sys.stdout, sys.stderr).  write() may   *)
(* be called from any thread; _shiplog() runs either synchronously inside  *)
(* write() or later on the owner (game) thread, through _ba.pushcall.      *)
(*                                                                         *)
(* A text is a sequence of one-character strings, so that join, endswith   *)
(* and the [:-1] slice are computed and not assumed.                       *)
(***************************************************************************)
EXTENDS Integers, Sequences, FiniteSets, TLC

\* ------------------------------------------------------------------ bounds
\* Total number of write() calls of a behaviour.
MaxWrites == 3

\* Total number of write() calls of a behaviour of LiveSpec.
MaxLiveWrites == 2

\* Total number of write() calls of a behaviour of IoSpec.
MaxIoWrites == 2

\* Total number of flush() and isatty() calls of a behaviour of IoSpec.
MaxIoCalls == 2

\* Total number of write() calls of a behaviour of FailSpec.
MaxFailWrites == 2

\* Total number of write() calls of a behaviour of DualSpec.
MaxDualWrites == 3

\* Total number of write() calls of a behaviour of NestSpec, the writes made
\* by the sinks included.
MaxNestWrites == 3

\* How deep the sinks of NestSpec nest their own write() calls.
MaxDepth == 1

\* ------------------------------------------------------------------ values
NL == "\n"

Streams == {"stdout", "stderr"}

\* The stream the writers of Spec write to (sys.stdout, line 69).
Out == "stdout"

Owner == "owner"

Threads == {Owner, "t1", "t2"}

NoThread == "none"

NoStream == "nostream"

\* The one character that tells the text of write number n apart.
Mark(n) == IF n = 1 THEN "a" ELSE IF n = 2 THEN "b" ELSE IF n = 3 THEN "c"
           ELSE IF n = 4 THEN "d" ELSE "e"

\* The texts write number n may be called with: the empty string, a bare
\* fragment, a complete line, a lone terminator, two lines in one text.
Texts(n) == { <<>>, <<Mark(n)>>, <<Mark(n), NL>>, <<NL>>,
              <<Mark(n), NL, Mark(n), NL>> }

\* ------------------------------------------------------------------ state
VARIABLES
    linebits,      \* [stream] self._linebits: the pending fragments
    lock,          \* [stream] owner of self._lock, or NoThread
    pending_ship,  \* [stream] self._pending_ship
    queue,         \* calls pushed to the owner thread, oldest first
    pc,            \* [thread] position of the thread
    frame,         \* [thread] locals of the call the thread is in
    nwrites,       \* number of write() calls made so far
    printed,       \* [stream] history: calls of the passthrough self._call
    appended,      \* [stream] history: fragments in the order of their append
    logged,        \* history: calls of _ba.log, in the order they were made
    started,       \* [stream] history: pushed _shiplog calls begun so far
    flushes,       \* history: calls of self._original.flush()
    answers,       \* history: calls of self._original.isatty() and what we returned
    raised,        \* history: exceptions of the log sink that left _shiplog
    stack,         \* [thread] the calls suspended inside a sink, outermost first
    refused        \* history: exceptions of the passthrough sink that left write

\* What write() and _shiplog() leave alone when the sinks return.
env == <<flushes, answers, raised, stack, refused>>

vars == <<linebits, lock, pending_ship, queue, pc, frame, nwrites,
          printed, appended, logged, started, flushes, answers, raised,
          stack, refused>>

\* ------------------------------------------------------------------ str
\* str.endswith('\n')
EndsWithNL(s) == Len(s) > 0 /\ s[Len(s)] = NL

\* line[:-1]
DropLast(s) == SubSeq(s, 1, Len(s) - 1)

\* A join that keeps the newest fragment only.
JoinLast(bits) == IF bits = <<>> THEN <<>> ELSE bits[Len(bits)].sval

\* ''.join(bits) of a list of fragments (records with field sval)
RECURSIVE Join(_)
Join(bits) == IF bits = <<>> THEN <<>>
              ELSE Head(bits).sval \o Join(Tail(bits))

\* The write numbers of a list of fragments.
Ids(bits) == [i \in 1..Len(bits) |-> bits[i].id]

\* The line shipped as it was joined.
StripLineKeep(line) == line

\* Lines 56-57: a single trailing newline is cut.
StripLine(line) == IF EndsWithNL(line) THEN DropLast(line) ELSE line

\* A log call that asks for the echo to the terminal.
ToStdoutTrue == TRUE

\* to_stdout argument of _ba.log on line 58.
ToStdout == FALSE

\* ------------------------------------------------------------------ init
NoFrame == [stream |-> NoStream, sval |-> <<>>, id |-> 0,
            line |-> <<>>, bits |-> <<>>, deferred |-> FALSE]

Init ==
    /\ linebits = [s \in Streams |-> <<>>]
    /\ lock = [s \in Streams |-> NoThread]
    /\ pending_ship = [s \in Streams |-> FALSE]
    /\ queue = <<>>
    /\ pc = [t \in Threads |-> "idle"]
    /\ frame = [t \in Threads |-> NoFrame]
    /\ nwrites = 0
    /\ printed = [s \in Streams |-> <<>>]
    /\ appended = [s \in Streams |-> <<>>]
    /\ logged = <<>>
    /\ started = [s \in Streams |-> 0]
    /\ flushes = <<>>
    /\ answers = <<>>
    /\ raised = <<>>
    /\ stack = [t \in Threads |-> <<>>]
    /\ refused = <<>>

\* ------------------------------------------------------------------ instances
\* One fragment list that every redirect uses.
SharedList(s) == Out

\* self._linebits = [] in __init__ (line 22): the redirect of stream s has a
\* fragment list of its own.
OwnList(s) == s

\* ------------------------------------------------------------------ lock
\* A lock that lets a thread in while another thread is inside.
FreeAlways(l, s) == TRUE

\* threading.Lock is not reentrant: `with self._lock:` (lines 39, 49) is
\* entered only while nobody, the caller included, holds the lock.
Free(l, s) == l[s] = NoThread

\* A `with` block that is left without releasing the lock.
UnlockNever(l, s) == l

\* The end of a `with self._lock:` block (lines 40, 52, 53) releases it.
Unlock(l, s) == [l EXCEPT ![s] = NoThread]

\* ------------------------------------------------------------------ write
\* A passthrough that trims the text it forwards.
PassThroughStripped(s, n, sval, t) ==
    printed' = [printed EXCEPT ![s] =
                   Append(@, [id |-> n, sval |-> StripLine(sval), t |-> t])]

\* self._call(sval), line 30: the passthrough sink gets the text.
PassThrough(s, n, sval, t) ==
    printed' = [printed EXCEPT ![s] = Append(@, [id |-> n, sval |-> sval, t |-> t])]

\* write() is entered and runs up to the lock: line 30.
WriteCall(t, s, sval) ==
    /\ pc[t] = "idle"
    /\ nwrites' = nwrites + 1
    /\ PassThrough(s, nwrites + 1, sval, t)
    /\ frame' = [frame EXCEPT ![t] = [NoFrame EXCEPT !.stream = s, !.sval = sval,
                                                     !.id = nwrites + 1]]
    /\ pc' = [pc EXCEPT ![t] = "w_lock"]
    /\ UNCHANGED <<env, linebits, lock, pending_ship, queue, appended, logged, started>>

\* with self._lock: (line 39) is entered.
WriteAcquire(t) ==
    /\ pc[t] = "w_lock"
    /\ Free(lock, frame[t].stream)
    /\ lock' = [lock EXCEPT ![frame[t].stream] = t]
    /\ pc' = [pc EXCEPT ![t] = "w_append"]
    /\ UNCHANGED <<env, linebits, pending_ship, queue, frame, nwrites, printed,
                   appended, logged, started>>

\* A write that always ships by itself.
AfterAppendShip(sval) == "s_lock"

\* A write that always leaves the shipping to the owner thread.
AfterAppendPush(sval) == "w_push"

\* Lines 41-46: a text that ends in a newline is shipped at once by the
\* writer, any other text is left to a pushed _shiplog.
AfterAppend(sval) == IF EndsWithNL(sval) THEN "s_lock" ELSE "w_push"

\* self._linebits.append(sval) (line 40), the lock is released, and the
\* test of line 41 picks the branch.
WriteAppend(t) ==
    LET s == frame[t].stream
        bit == [id |-> frame[t].id, sval |-> frame[t].sval]
    IN /\ pc[t] = "w_append"
       /\ lock[s] = t
       /\ linebits' = [linebits EXCEPT ![OwnList(s)] = Append(@, bit)]
       /\ appended' = [appended EXCEPT ![s] =
              Append(@, [id |-> bit.id, sval |-> bit.sval, t |-> t,
                         st |-> started[s]])]
       /\ lock' = Unlock(lock, s)
       /\ pc' = [pc EXCEPT ![t] = AfterAppend(frame[t].sval)]
       /\ UNCHANGED <<env, pending_ship, queue, frame, nwrites, printed, logged, started>>

\* A pushcall that is dropped.
PushCallDropped(q, s) == q

\* _ba.pushcall(self._shiplog, ...), lines 44-46; write() returns.
PushCall(q, s) == Append(q, s)

WritePush(t) ==
    /\ pc[t] = "w_push"
    /\ queue' = PushCall(queue, frame[t].stream)
    /\ pc' = [pc EXCEPT ![t] = "idle"]
    /\ frame' = [frame EXCEPT ![t] = NoFrame]
    /\ UNCHANGED <<env, linebits, lock, pending_ship, nwrites, printed, appended,
                   logged, started>>

\* ------------------------------------------------------------------ _shiplog
\* with self._lock: (line 49) is entered.
ShipAcquire(t) ==
    /\ pc[t] = "s_lock"
    /\ Free(lock, frame[t].stream)
    /\ lock' = [lock EXCEPT ![frame[t].stream] = t]
    /\ pc' = [pc EXCEPT ![t] = "s_body"]
    /\ UNCHANGED <<env, linebits, pending_ship, queue, frame, nwrites, printed,
                   appended, logged, started>>

\* A flush that leaves the fragments it joined in place.
NotCleared(bits) == bits

\* What line 53 leaves in self._linebits.
Cleared(bits) == <<>>

\* A flush that never takes the early return.
NeverEmpty(line) == FALSE

\* if not line: (line 51)
NoLine(line) == line = <<>>

\* Lines 50-53 under the lock: join, return on an empty line, else clear.
ShipBody(t) ==
    LET s == frame[t].stream
        line == Join(linebits[OwnList(s)])
    IN /\ pc[t] = "s_body"
       /\ lock[s] = t
       /\ lock' = Unlock(lock, s)
       /\ IF NoLine(line)
          THEN /\ pc' = [pc EXCEPT ![t] = "idle"]
               /\ frame' = [frame EXCEPT ![t] = NoFrame]
               /\ UNCHANGED linebits
          ELSE /\ pc' = [pc EXCEPT ![t] = "s_log"]
               /\ frame' = [frame EXCEPT ![t].line = line,
                                         ![t].bits = Ids(linebits[OwnList(s)])]
               /\ linebits' = [linebits EXCEPT ![OwnList(s)] = Cleared(@)]
       /\ UNCHANGED <<env, pending_ship, queue, nwrites, printed, appended, logged, started>>

\* The call of _ba.log thread t makes on line 58, after lines 56-57.
LogCall(t) == [stream |-> frame[t].stream,
               line |-> StripLine(frame[t].line),
               to_stdout |-> ToStdout,
               bits |-> frame[t].bits,
               t |-> t,
               deferred |-> frame[t].deferred]

\* Lines 56-58 outside the lock: _ba.log(line, to_stdout=False).
ShipLog(t) ==
    /\ pc[t] = "s_log"
    /\ logged' = Append(logged, LogCall(t))
    /\ pc' = [pc EXCEPT ![t] = "idle"]
    /\ frame' = [frame EXCEPT ![t] = NoFrame]
    /\ UNCHANGED <<env, linebits, lock, pending_ship, queue, nwrites, printed,
                   appended, started>>

\* What a failed _ba.log would leave pending if _shiplog put its batch back.
Restored(bits, batch) == batch \o bits

\* What is pending after _ba.log raised: _shiplog has no handler, the batch
\* it took on line 53 is not put back.
AfterFailure(bits, batch) == bits

\* _ba.log raises on line 58: the exception leaves _shiplog, and write() if
\* the flush was the writer's own.
ShipLogFail(t) ==
    LET s == frame[t].stream
        batch == [i \in DOMAIN frame[t].bits |->
                     [id |-> frame[t].bits[i],
                      sval |-> appended[s][CHOOSE k \in DOMAIN appended[s] :
                                   appended[s][k].id = frame[t].bits[i]].sval]]
    IN /\ pc[t] = "s_log"
       /\ raised' = Append(raised, [stream |-> s, bits |-> frame[t].bits, t |-> t,
                                    deferred |-> frame[t].deferred])
       /\ linebits' = [linebits EXCEPT ![s] = AfterFailure(@, batch)]
       /\ pc' = [pc EXCEPT ![t] = "idle"]
       /\ frame' = [frame EXCEPT ![t] = NoFrame]
       /\ UNCHANGED <<lock, pending_ship, queue, nwrites, printed, appended,
                      logged, started, flushes, answers, stack, refused>>

\* A write that appends its text although the passthrough sink raised.
AppendedAnyway(bits, bit) == Append(bits, bit)

\* What is pending after self._call raised on line 30: write() has no
\* handler and line 30 is its first statement, so lines 39-46 are not run.
AfterRefusal(bits, bit) == bits

\* self._call(sval) raises on line 30: the exception leaves write().
WriteCallFail(t, s, sval) ==
    /\ pc[t] = "idle"
    /\ nwrites' = nwrites + 1
    /\ refused' = Append(refused, [stream |-> s, id |-> nwrites + 1,
                                   sval |-> sval, t |-> t])
    /\ linebits' = [linebits EXCEPT ![s] =
                        AfterRefusal(@, [id |-> nwrites + 1, sval |-> sval])]
    /\ UNCHANGED <<lock, pending_ship, queue, pc, frame, printed, appended,
                   logged, started, flushes, answers, raised, stack>>

\* ------------------------------------------------------------------ flush, isatty
\* A flush() that empties the pending fragments.
DroppedByFlush(bits) == <<>>

\* What flush() leaves in self._linebits: lines 60-62 do not touch it.
KeptByFlush(bits) == bits

\* flush(), lines 60-62: self._original.flush().
Flush(t, s) ==
    /\ pc[t] = "idle"
    /\ flushes' = Append(flushes, [stream |-> s, pending |-> Len(linebits[s])])
    /\ linebits' = [linebits EXCEPT ![s] = KeptByFlush(@)]
    /\ UNCHANGED <<lock, pending_ship, queue, pc, frame, nwrites, printed,
                   appended, logged, started, answers, raised, stack, refused>>

\* An isatty() that claims a terminal whatever the stream says.
IsattyAlways(v) == TRUE

\* return self._original.isatty(), line 66.
IsattyResult(v) == v

\* isatty(), lines 64-66; v is what the underlying stream answers.
IsAtty(t, s, v) ==
    /\ pc[t] = "idle"
    /\ answers' = Append(answers, [stream |-> s, original |-> v,
                                   ret |-> IsattyResult(v),
                                   pending |-> Len(linebits[s])])
    /\ UNCHANGED <<linebits, lock, pending_ship, queue, pc, frame, nwrites,
                   printed, appended, logged, started, flushes, raised, stack,
                   refused>>

\* ------------------------------------------------------------------ owner thread
\* The owner thread's loop takes the oldest pushed call and enters _shiplog.
OwnerRun ==
    /\ pc[Owner] = "idle"
    /\ queue # <<>>
    /\ queue' = Tail(queue)
    /\ frame' = [frame EXCEPT ![Owner] = [NoFrame EXCEPT !.stream = Head(queue),
                                                          !.deferred = TRUE]]
    /\ started' = [started EXCEPT ![Head(queue)] = @ + 1]
    /\ pc' = [pc EXCEPT ![Owner] = "s_lock"]
    /\ UNCHANGED <<env, linebits, lock, pending_ship, nwrites, printed, appended, logged>>

\* ------------------------------------------------------------------ sinks that write
\* _ba.log is called on line 58 and has not returned yet: the call is in
\* logged, the thread is inside the sink, still in the frame of _shiplog.
\* Other threads run while the sink does.
LogEnter(t) ==
    /\ pc[t] = "s_log"
    /\ logged' = Append(logged, LogCall(t))
    /\ pc' = [pc EXCEPT ![t] = "s_in"]
    /\ UNCHANGED <<env, linebits, lock, pending_ship, queue, frame, nwrites,
                   printed, appended, started>>

\* A sink running on thread t calls write(sval) on the stream it serves: the
\* log sink from inside _ba.log (s_in, line 58), or the passthrough sink
\* from inside self._call (w_lock, line 30) after it forwarded the text.
\* The call in progress is suspended where it is and the nested write()
\* runs line 30.
SinkWrite(t, sval) ==
    LET s == frame[t].stream
    IN /\ pc[t] \in {"w_lock", "s_in"}
       /\ Len(stack[t]) < MaxDepth
       /\ stack' = [stack EXCEPT ![t] = Append(@, [pc |-> pc[t], frame |-> frame[t]])]
       /\ nwrites' = nwrites + 1
       /\ PassThrough(s, nwrites + 1, sval, t)
       /\ frame' = [frame EXCEPT ![t] = [NoFrame EXCEPT !.stream = s, !.sval = sval,
                                                        !.id = nwrites + 1]]
       /\ pc' = [pc EXCEPT ![t] = "w_lock"]
       /\ UNCHANGED <<flushes, answers, raised, refused, linebits, lock,
                      pending_ship, queue, appended, logged, started>>

\* The nested write() has returned: the sink goes on where it was.
SinkReturn(t) ==
    /\ pc[t] = "idle"
    /\ stack[t] # <<>>
    /\ pc' = [pc EXCEPT ![t] = stack[t][Len(stack[t])].pc]
    /\ frame' = [frame EXCEPT ![t] = stack[t][Len(stack[t])].frame]
    /\ stack' = [stack EXCEPT ![t] = SubSeq(@, 1, Len(@) - 1)]
    /\ UNCHANGED <<flushes, answers, raised, refused, linebits, lock,
                   pending_ship, queue, nwrites, printed, appended, logged, started>>

\* _ba.log, entered before, returns: _shiplog is over (line 58 is its last
\* statement).
SinkDone(t) ==
    /\ pc[t] = "s_in"
    /\ pc' = [pc EXCEPT ![t] = "idle"]
    /\ frame' = [frame EXCEPT ![t] = NoFrame]
    /\ UNCHANGED <<env, linebits, lock, pending_ship, queue, nwrites, printed,
                   appended, logged, started>>

\* ------------------------------------------------------------------ spec
Next ==
    \/ /\ nwrites < MaxWrites
       /\ \E t \in Threads : \E sval \in Texts(nwrites + 1) : WriteCall(t, Out, sval)
    \/ \E t \in Threads : WriteAcquire(t)
    \/ \E t \in Threads : WriteAppend(t)
    \/ \E t \in Threads : WritePush(t)
    \/ \E t \in Threads : ShipAcquire(t)
    \/ \E t \in Threads : ShipBody(t)
    \/ \E t \in Threads : ShipLog(t)
    \/ OwnerRun

Spec == Init /\ [][Next]_vars

\* A thread that is inside write() or _shiplog() takes its next step.
Run(t) ==
    \/ WriteAcquire(t)
    \/ WriteAppend(t)
    \/ WritePush(t)
    \/ ShipAcquire(t)
    \/ ShipBody(t)
    \/ ShipLog(t)

LiveNext ==
    \/ /\ nwrites < MaxLiveWrites
       /\ \E t \in Threads : \E sval \in Texts(nwrites + 1) : WriteCall(t, Out, sval)
    \/ \E t \in Threads : Run(t)
    \/ OwnerRun

\* Every thread keeps running (the sinks return, a free lock is taken) and
\* the owner thread's loop keeps taking the calls pushed to it.
Fairness ==
    /\ \A t \in Threads : WF_vars(Run(t))
    /\ WF_vars(OwnerRun)

LiveSpec == Init /\ [][LiveNext]_vars /\ Fairness

\* The writes together with the calls of flush() and isatty().
IoNext ==
    \/ /\ nwrites < MaxIoWrites
       /\ \E t \in Threads : \E sval \in Texts(nwrites + 1) : WriteCall(t, Out, sval)
    \/ \E t \in Threads : Run(t)
    \/ OwnerRun
    \/ /\ Len(flushes) + Len(answers) < MaxIoCalls
       /\ \E t \in Threads, s \in Streams : Flush(t, s)
    \/ /\ Len(flushes) + Len(answers) < MaxIoCalls
       /\ \E t \in Threads, s \in Streams, v \in BOOLEAN : IsAtty(t, s, v)

IoSpec == Init /\ [][IoNext]_vars

\* The writes with sinks that may raise.
FailNext ==
    \/ /\ nwrites < MaxFailWrites
       /\ \E t \in Threads : \E sval \in Texts(nwrites + 1) : WriteCall(t, Out, sval)
    \/ /\ nwrites < MaxFailWrites
       /\ \E t \in Threads : \E sval \in Texts(nwrites + 1) :
              WriteCallFail(t, Out, sval)
    \/ \E t \in Threads : Run(t)
    \/ OwnerRun
    \/ \E t \in Threads : ShipLogFail(t)

FailSpec == Init /\ [][FailNext]_vars

\* The texts of NestSpec and DualSpec: a bare fragment, which leaves the
\* flush to the owner thread, and a complete line, which the writer ships.
ShortTexts(n) == { <<Mark(n)>>, <<Mark(n), NL>> }

\* The owner thread's loop takes a pushed call only between two calls.
OwnerLoop == stack[Owner] = <<>> /\ OwnerRun

\* The writes with sinks that write to the stream they serve.
NestNext ==
    \/ /\ nwrites < MaxNestWrites
       /\ \E t \in Threads : \E sval \in ShortTexts(nwrites + 1) :
              stack[t] = <<>> /\ WriteCall(t, Out, sval)
    \/ /\ nwrites < MaxNestWrites
       /\ \E t \in Threads : \E sval \in ShortTexts(nwrites + 1) : SinkWrite(t, sval)
    \/ \E t \in Threads : LogEnter(t)
    \/ \E t \in Threads : SinkReturn(t)
    \/ \E t \in Threads : SinkDone(t)
    \/ \E t \in Threads : Run(t)
    \/ OwnerLoop

\* The threads keep running, a sink that made a write gets its return, and
\* the owner thread's loop keeps taking the calls pushed to it.
NestFairness ==
    /\ \A t \in Threads :
           WF_vars(Run(t)) /\ WF_vars(SinkReturn(t)) /\ WF_vars(SinkDone(t))
    /\ WF_vars(OwnerLoop)

NestSpec == Init /\ [][NestNext]_vars /\ NestFairness

\* The writes to both redirects, sys.stdout and sys.stderr (lines 69-70).
DualNext ==
    \/ /\ nwrites < MaxDualWrites
       /\ \E t \in Threads : \E s \in Streams : \E sval \in ShortTexts(nwrites + 1) :
              WriteCall(t, s, sval)
    \/ \E t \in Threads : Run(t)
    \/ OwnerRun

DualSpec == Init /\ [][DualNext]_vars

\* ------------------------------------------------------------------ histories
\* The calls of _ba.log that carry text of stream s, oldest first.
LogOf(s) == SelectSeq(logged, LAMBDA e : e.stream = s)

\* The lines of a list of log calls.
Lines(log) == [i \in 1..Len(log) |-> log[i].line]

\* The write numbers of all fragments of a list of log calls, in shipping order.
RECURSIVE Flat(_)
Flat(log) == IF log = <<>> THEN <<>> ELSE Head(log).bits \o Flat(Tail(log))

\* How often x occurs in the sequence seq.
Occ(seq, x) == Cardinality({i \in DOMAIN seq : seq[i] = x})

\* How often the character ch occurs in the lines of a list of log calls.
RECURSIVE CountIn(_, _)
CountIn(log, ch) == IF log = <<>> THEN 0
                    ELSE Occ(Head(log).line, ch) + CountIn(Tail(log), ch)

\* Thread t is inside write() on stream s.
Writing(t, s) == frame[t].stream = s /\ ~frame[t].deferred

\* Every write() on s has returned.
Returned(s) == \A t \in Threads : ~Writing(t, s)

\* The positions of the owner thread's queue that hold a _shiplog of stream s.
Queued(s) == {i \in DOMAIN queue : queue[i] = s}

\* Every pushed _shiplog of stream s has run to its end.
Drained(s) == Queued(s) = {} /\ ~(frame[Owner].stream = s /\ frame[Owner].deferred)

\* The threads that took a batch from stream s and have not called _ba.log yet.
Holding(s) == {t \in Threads : pc[t] = "s_log" /\ frame[t].stream = s}

\* The position of write number n in the append order of stream s.
Pos(s, n) == CHOOSE k \in DOMAIN appended[s] : appended[s][k].id = n

\* The terminator-delimited segments of a text, terminators removed.
RECURSIVE Split(_, _)
Split(text, cur) ==
    IF text = <<>> THEN (IF cur = <<>> THEN <<>> ELSE <<cur>>)
    ELSE IF Head(text) = NL THEN <<cur>> \o Split(Tail(text), <<>>)
    ELSE Split(Tail(text), Append(cur, Head(text)))

Segments(text) == Split(text, <<>>)

\* A text without terminator except, possibly, as its last character.
Simple(sval) == \A k \in DOMAIN sval : sval[k] = NL => k = Len(sval)

\* ------------------------------------------------------------------ C1
\* C1: every text given to write() is handed to the passthrough sink exactly
\* once and unchanged, and that happens before the text is appended to the
\* pending fragments and before any log call carries it: whatever is in a
\* write's frame, in the append history or in a log call has its one verbatim
\* passthrough call already.
PrintedOnce(s, n, sval) ==
    /\ Cardinality({j \in DOMAIN printed[s] : printed[s][j].id = n}) = 1
    /\ \A j \in DOMAIN printed[s] : printed[s][j].id = n => printed[s][j].sval = sval

C1_PassthroughFirst ==
    /\ \A t \in Threads : frame[t].id # 0 =>
           PrintedOnce(frame[t].stream, frame[t].id, frame[t].sval)
    /\ \A s \in Streams : \A i \in DOMAIN appended[s] :
           PrintedOnce(s, appended[s][i].id, appended[s][i].sval)
    /\ \A k \in DOMAIN logged : \A b \in DOMAIN logged[k].bits :
           \E j \in DOMAIN printed[logged[k].stream] :
               printed[logged[k].stream][j].id = logged[k].bits[b]
    /\ \A n \in 1..nwrites : \E s \in Streams : \E j \in DOMAIN printed[s] :
           printed[s][j].id = n

\* A terminated text has been printed, appended and logged while another text
\* is printed and not appended yet.
C1_Witness ==
    /\ \E k \in DOMAIN logged : logged[k].bits # <<>> /\ logged[k].line # <<>>
    /\ \E t \in Threads : pc[t] = "w_lock" /\ EndsWithNL(frame[t].sval)
                          /\ Len(appended[frame[t].stream]) < Len(printed[frame[t].stream])

\* ------------------------------------------------------------------ C2
\* C2: in every state each appended fragment is in exactly one place: still
\* pending, taken by one flush that has not logged yet, or in one log call;
\* no fragment is in two log calls and none has vanished.
C2_NoLossNoDuplicate ==
    \A s \in Streams : \A n \in 1..nwrites :
        LET a == Occ(Ids(appended[s]), n)
            p == Occ(Ids(linebits[s]), n)
            h == Cardinality({t \in Holding(s) : Occ(frame[t].bits, n) > 0})
            l == Occ(Flat(LogOf(s)), n)
        IN /\ a <= 1
           /\ l <= 1
           /\ \A t \in Holding(s) : Occ(frame[t].bits, n) <= 1
           /\ p + h + l = a

\* A deferred and a synchronous flush each shipped a batch, and a third
\* fragment is pending.
C2_Witness ==
    /\ \E i, j \in DOMAIN logged :
           /\ logged[i].stream = Out /\ logged[j].stream = Out
           /\ logged[i].deferred /\ ~logged[j].deferred
    /\ linebits[Out] # <<>>
    /\ Join(linebits[Out]) # <<>>

\* ------------------------------------------------------------------ C3
\* C3 as stated: once every write and every pushed flush of a stream is over
\* and the concatenation of the texts ends in a terminator, the log calls are
\* the segments of the concatenation, one call per segment, in order.
C3_OneLinePerSegment ==
    \A s \in Streams :
        (Returned(s) /\ Drained(s) /\ EndsWithNL(Join(appended[s])))
        => Lines(LogOf(s)) = Segments(Join(appended[s]))

\* All fragments of s were written by one thread.
OneWriter(s) == \A i, j \in DOMAIN appended[s] : appended[s][i].t = appended[s][j].t

\* No pushed flush has shipped or holds text of s.
NoDeferredShip(s) ==
    /\ \A k \in DOMAIN logged : logged[k].stream = s => ~logged[k].deferred
    /\ \A t \in Holding(s) : ~frame[t].deferred

\* C3 amended: the same, for writes of one thread, each text with at most one
\* terminator, at its end, and no pushed flush finding text to ship.
C3_OneLinePerSimpleSegment ==
    \A s \in Streams :
        (/\ Returned(s) /\ Drained(s)
         /\ EndsWithNL(Join(appended[s]))
         /\ OneWriter(s)
         /\ \A i \in DOMAIN appended[s] : Simple(appended[s][i].sval)
         /\ NoDeferredShip(s))
        => Lines(LogOf(s)) = Segments(Join(appended[s]))

\* Three writes of one thread, the first two making one segment, shipped as
\* two lines, and the pushed flush of the first write has run.
C3_Witness ==
    /\ Returned(Out) /\ Drained(Out) /\ OneWriter(Out) /\ NoDeferredShip(Out)
    /\ Len(appended[Out]) = MaxWrites
    /\ \A i \in DOMAIN appended[Out] : Simple(appended[Out][i].sval)
    /\ ~EndsWithNL(appended[Out][1].sval) /\ appended[Out][1].sval # <<>>
    /\ EndsWithNL(Join(appended[Out]))
    /\ Len(LogOf(Out)) = 2
    /\ Len(LogOf(Out)[1].bits) = 2
    /\ started[Out] >= 1

\* ------------------------------------------------------------------ C4
\* C4 as stated: the fragments of a stream reach the log sink in the order of
\* their append: of two fragments in log calls, the one logged first was
\* appended first.
C4_ShippedInAppendOrder ==
    \A s \in Streams :
        LET f == Flat(LogOf(s))
        IN \A i, j \in DOMAIN f : i < j => Pos(s, f[i]) < Pos(s, f[j])

\* ------------------------------------------------------------------ C5
\* The writes of stream s so far are at least two, each by another thread,
\* each a token of its own followed by a terminator, and all have returned.
TokenWrites(s) ==
    /\ Len(appended[s]) >= 2
    /\ Len(printed[s]) = Len(appended[s])
    /\ Returned(s)
    /\ \A i \in DOMAIN appended[s] : appended[s][i].sval = <<Mark(appended[s][i].id), NL>>
    /\ \A i, j \in DOMAIN appended[s] : i # j => appended[s][i].t # appended[s][j].t

\* C5: when N threads each wrote one distinct terminated token to a stream and
\* all the writes have returned, every token is in the text the log sink got
\* exactly once: in one log call, once in the lines, none missing, none twice.
C5_EachTokenOnce ==
    \A s \in Streams :
        TokenWrites(s) =>
            /\ Len(Flat(LogOf(s))) = Len(appended[s])
            /\ \A i \in DOMAIN appended[s] :
                   /\ Occ(Flat(LogOf(s)), appended[s][i].id) = 1
                   /\ CountIn(LogOf(s), Mark(appended[s][i].id)) = 1

\* Three threads wrote a token each, all writes returned, and two of the
\* tokens were shipped together by one flush.
C5_Witness ==
    /\ TokenWrites(Out)
    /\ Len(appended[Out]) = Cardinality(Threads)
    /\ \E k \in DOMAIN logged : Len(logged[k].bits) = 2

\* ------------------------------------------------------------------ C7
\* C7 as stated: the owner thread's queue never holds more than one pushed
\* flush of a stream.
C7_OneRequestOutstanding ==
    \A s \in Streams : Cardinality(Queued(s)) <= 1

\* ------------------------------------------------------------------ C8
\* At least two writes on s, none ending in a terminator, all appended before
\* the owner thread began any pushed flush of s, and all have returned.
BareWritesFirst(s) ==
    /\ Len(appended[s]) >= 2
    /\ Len(printed[s]) = Len(appended[s])
    /\ Returned(s)
    /\ \A i \in DOMAIN appended[s] :
           ~EndsWithNL(appended[s][i].sval) /\ appended[s][i].st = 0

\* C8: when several non-terminated writes were made before the owner thread
\* ran any pushed flush, then once the owner thread has run them all there is
\* exactly one log call, made by the owner thread, whose line is the
\* concatenation of all the texts in order; the other pushed flushes shipped
\* nothing (and nothing at all is shipped when every text was empty).
C8_CoalescedIntoOneLine ==
    \A s \in Streams :
        (BareWritesFirst(s) /\ Drained(s)) =>
            /\ started[s] = Len(appended[s])
            /\ IF Join(appended[s]) = <<>>
               THEN LogOf(s) = <<>>
               ELSE /\ Len(LogOf(s)) = 1
                    /\ LogOf(s)[1].line = Join(appended[s])
                    /\ LogOf(s)[1].bits = Ids(appended[s])
                    /\ LogOf(s)[1].deferred
                    /\ LogOf(s)[1].t = Owner

\* Three bare fragments were written before any pushed flush began, the
\* owner thread ran all three flushes and one line was shipped.
C8_Witness ==
    /\ BareWritesFirst(Out) /\ Drained(Out)
    /\ Len(appended[Out]) = MaxWrites
    /\ \A i \in DOMAIN appended[Out] : appended[Out][i].sval # <<>>
    /\ started[Out] = MaxWrites
    /\ Len(LogOf(Out)) = 1

\* ------------------------------------------------------------------ C9
\* The writes on s so far are those of one thread, only the last text ends in
\* a terminator, no pushed flush of s had begun when it was appended, and the
\* writes have returned.
LineInPieces(s) ==
    LET n == Len(appended[s])
    IN /\ n >= 2
       /\ Len(printed[s]) = n
       /\ Returned(s)
       /\ OneWriter(s)
       /\ \A i \in 1..(n - 1) : ~EndsWithNL(appended[s][i].sval)
       /\ EndsWithNL(appended[s][n].sval)
       /\ appended[s][n].st = 0

\* C9: writes of one thread of which only the last ends in a terminator, with
\* no flush in between, give exactly one log call, and its line is the
\* concatenation of the texts without the final terminator; when the pushed
\* flushes of the earlier writes have run too, there is still that one call.
C9_OneLineFromPieces ==
    \A s \in Streams :
        LineInPieces(s) =>
            /\ Len(Flat(LogOf(s))) + Cardinality(Holding(s)) >= 1
            /\ Holding(s) = {} =>
                   /\ Len(LogOf(s)) = 1
                   /\ LogOf(s)[1].line = DropLast(Join(appended[s]))
                   /\ LogOf(s)[1].bits = Ids(appended[s])
            /\ Drained(s) => /\ started[s] = Len(appended[s]) - 1
                             /\ Len(LogOf(s)) = 1

\* write("a"); write("b"); write("c\n") by one thread: the writer shipped the
\* one line itself and the two pushed flushes ran after it.
C9_Witness ==
    /\ LineInPieces(Out) /\ Drained(Out)
    /\ Len(appended[Out]) = MaxWrites
    /\ \A i \in DOMAIN appended[Out] : appended[Out][i].sval # <<>>
    /\ Len(LogOf(Out)) = 1
    /\ ~LogOf(Out)[1].deferred
    /\ Len(LogOf(Out)[1].line) = MaxWrites
    /\ started[Out] = MaxWrites - 1

\* ------------------------------------------------------------------ C10
\* All writes begun on s are those of one thread and every text ends in a
\* terminator.
LinesOfOneThread(s) ==
    /\ \A i, j \in DOMAIN printed[s] : printed[s][i].t = printed[s][j].t
    /\ \A i \in DOMAIN printed[s] : EndsWithNL(printed[s][i].sval)

\* C10: consecutive terminated writes of one thread give one log call per
\* write, in the order of the writes, each made by the writer before its
\* write returns and so before the next write begins.
C10_OneCallPerLine ==
    \A s \in Streams :
        LinesOfOneThread(s) =>
            LET n == Len(printed[s])
                k == Len(LogOf(s))
            IN /\ k <= n
               /\ k >= n - 1
               /\ Returned(s) => k = n
               /\ \A i \in 1..k :
                      /\ LogOf(s)[i].bits = <<printed[s][i].id>>
                      /\ LogOf(s)[i].line = DropLast(printed[s][i].sval)
                      /\ LogOf(s)[i].t = printed[s][i].t
                      /\ ~LogOf(s)[i].deferred

\* Two lines were written and logged in turn and a third write has begun.
C10_Witness ==
    /\ LinesOfOneThread(Out)
    /\ Len(printed[Out]) = MaxWrites
    /\ Len(LogOf(Out)) = MaxWrites - 1
    /\ ~Returned(Out)

\* ------------------------------------------------------------------ C6
\* Write number n was called with a non-empty text.
WrittenText(n) ==
    \E s \in Streams : \E j \in DOMAIN printed[s] :
        printed[s][j].id = n /\ printed[s][j].sval # <<>>

\* The fragment of write number n is in a log call.
Shipped(n) ==
    \E k \in DOMAIN logged : \E b \in DOMAIN logged[k].bits : logged[k].bits[b] = n

\* C6: when the threads keep running and the owner thread keeps taking the
\* calls pushed to it, every non-empty text given to write() is in a log call
\* in the end; no fragment stays pending for ever.
C6_EventuallyShipped ==
    \A n \in 1..MaxLiveWrites : WrittenText(n) ~> Shipped(n)

\* A bare fragment was shipped by the pushed flush its write asked for.
C6_Witness ==
    \E k \in DOMAIN logged :
        /\ logged[k].deferred
        /\ \E i \in DOMAIN appended[logged[k].stream] :
               /\ ~EndsWithNL(appended[logged[k].stream][i].sval)
               /\ logged[k].bits = <<appended[logged[k].stream][i].id>>

\* ------------------------------------------------------------------ C11
\* C11: a write whose text ends in a terminator takes _shiplog itself right
\* after its append, no step of it touches the owner thread's queue, and when
\* it returns its fragment is not among the pending fragments.
C11_ShipsItself ==
    [][\A t \in Threads :
          (frame[t].id # 0 /\ EndsWithNL(frame[t].sval) /\ pc'[t] # pc[t]) =>
              /\ queue' = queue
              /\ pc[t] = "w_append" => pc'[t] = "s_lock"
              /\ pc'[t] = "idle" =>
                     /\ pc[t] \in {"s_body", "s_log"}
                     /\ \A i \in DOMAIN linebits'[frame[t].stream] :
                            linebits'[frame[t].stream][i].id # frame[t].id]_vars

\* A terminated write has logged its own line and returned; no flush was ever
\* pushed and nothing is pending.
C11_Witness ==
    \E k \in DOMAIN logged :
        /\ ~logged[k].deferred
        /\ pc[logged[k].t] = "idle"
        /\ \E i \in DOMAIN appended[Out] :
               /\ logged[k].bits = <<appended[Out][i].id>>
               /\ appended[Out][i].t = logged[k].t
        /\ queue = <<>>
        /\ started[Out] = 0
        /\ linebits[Out] = <<>>

\* ------------------------------------------------------------------ C12
\* C12: a write whose text does not end in a terminator makes no log call:
\* after its append it pushes one _shiplog to the owner thread and returns,
\* whatever the queue holds, and never enters _shiplog itself.
C12_LeavesShippingToOwner ==
    [][\A t \in Threads :
          (frame[t].id # 0 /\ ~EndsWithNL(frame[t].sval) /\ pc'[t] # pc[t]) =>
              /\ logged' = logged
              /\ pc'[t] \notin {"s_lock", "s_body", "s_log"}
              /\ pc[t] = "w_append" =>
                     /\ pc'[t] = "w_push"
                     /\ linebits'[frame[t].stream] =
                            Append(linebits[frame[t].stream],
                                   [id |-> frame[t].id, sval |-> frame[t].sval])
              /\ pc[t] = "w_push" =>
                     /\ queue' = Append(queue, frame[t].stream)
                     /\ pc'[t] = "idle"
              /\ pc'[t] = "idle" => pc[t] = "w_push"]_vars

\* A bare fragment's write has returned: the fragment is pending, its flush is
\* still in the queue and nothing was logged.
C12_Witness ==
    \E i \in DOMAIN appended[Out] :
        /\ appended[Out][i].sval # <<>>
        /\ ~EndsWithNL(appended[Out][i].sval)
        /\ pc[appended[Out][i].t] = "idle"
        /\ \E j \in DOMAIN linebits[Out] : linebits[Out][j].id = appended[Out][i].id
        /\ Queued(Out) # {}
        /\ logged = <<>>

\* ------------------------------------------------------------------ C13
\* C13: a _shiplog that finds no pending fragment returns at once: it makes no
\* log call and leaves the fragments, the queue, the flag and the passthrough
\* history as they were and the lock free.
C13_EmptyFlushDoesNothing ==
    [][\A t \in Threads :
          (pc[t] = "s_body" /\ pc'[t] # pc[t] /\ linebits[frame[t].stream] = <<>>) =>
              /\ pc'[t] = "idle"
              /\ linebits' = linebits
              /\ logged' = logged
              /\ printed' = printed
              /\ queue' = queue
              /\ pending_ship' = pending_ship
              /\ lock'[frame[t].stream] = NoThread]_vars

\* Two pushed flushes ran one after the other on an empty buffer: the writer
\* had shipped all (non-empty) fragments itself.
C13_Witness ==
    /\ started[Out] >= 2
    /\ Drained(Out)
    /\ pc[Owner] = "idle"
    /\ linebits[Out] = <<>>
    /\ \A i \in DOMAIN appended[Out] : appended[Out][i].sval # <<>>
    /\ Len(logged) = 1
    /\ ~logged[1].deferred

\* ------------------------------------------------------------------ C14
\* C14: as long as the only texts written to a stream are empty strings, no
\* log call is made for it and no flush holds a line of it, neither during
\* the writes nor when the flushes they pushed run.
C14_EmptyTextNeverShips ==
    \A s \in Streams :
        (Len(printed[s]) >= 1 /\ \A i \in DOMAIN printed[s] : printed[s][i].sval = <<>>)
        => /\ LogOf(s) = <<>>
           /\ Holding(s) = {}
           /\ \A i \in DOMAIN appended[s] : PrintedOnce(s, appended[s][i].id, <<>>)

\* write("") has returned and the flush it pushed has run to its end.
C14_Witness ==
    /\ Len(printed[Out]) >= 1
    /\ \A i \in DOMAIN printed[Out] : printed[Out][i].sval = <<>>
    /\ Returned(Out) /\ Drained(Out)
    /\ started[Out] = Len(printed[Out])
    /\ logged = <<>>

\* ------------------------------------------------------------------ C15
\* C15 as stated: no line given to the log sink ends in a terminator.
C15_NoTrailingTerminator ==
    \A k \in DOMAIN logged : ~EndsWithNL(logged[k].line)

\* ------------------------------------------------------------------ C16
\* The text write number n appended to stream s.
TextOf(s, n) == appended[s][Pos(s, n)].sval

\* The texts of the writes ids, one after the other.
RECURSIVE Concat(_, _)
Concat(s, ids) == IF ids = <<>> THEN <<>>
                  ELSE TextOf(s, Head(ids)) \o Concat(s, Tail(ids))

\* A text without its last character when that is a terminator.
CutOne(text) == IF text # <<>> /\ text[Len(text)] = NL
                THEN SubSeq(text, 1, Len(text) - 1) ELSE text

\* C16: the line of every log call is the concatenation of the fragments of
\* its batch, which are neighbours in the append order and in that order,
\* less one trailing terminator if there is one; every other character,
\* terminators included, is kept.
C16_LineIsJoinedBatch ==
    \A k \in DOMAIN logged :
        LET e == logged[k]
        IN /\ e.bits # <<>>
           /\ \A i \in 1..(Len(e.bits) - 1) :
                  Pos(e.stream, e.bits[i + 1]) = Pos(e.stream, e.bits[i]) + 1
           /\ e.line = CutOne(Concat(e.stream, e.bits))

\* A batch of two fragments was shipped with an inner terminator kept and the
\* last one cut.
C16_Witness ==
    \E k \in DOMAIN logged :
        /\ Len(logged[k].bits) = 2
        /\ Len(logged[k].line) = Len(Concat(logged[k].stream, logged[k].bits)) - 1
        /\ \E i \in DOMAIN logged[k].line : logged[k].line[i] = NL

\* ------------------------------------------------------------------ C18
\* C18: every call of the log sink has to_stdout false, on the writer's own
\* flush and on the pushed one.
C18_NeverEchoes ==
    \A k \in DOMAIN logged : logged[k].to_stdout = FALSE

\* The log sink was called from a pushed flush and from a writer's flush.
C18_Witness ==
    /\ Len(logged) = MaxWrites
    /\ \E k \in DOMAIN logged : logged[k].deferred /\ logged[k].t = Owner
    /\ \E k \in DOMAIN logged : ~logged[k].deferred /\ logged[k].t # Owner

\* ------------------------------------------------------------------ C17
\* C17: a call of flush() reaches the underlying stream's flush() once and
\* does nothing else: the pending fragments, the lock, the flag, the owner
\* thread's queue, both sinks' histories and every thread stay as they were.
C17_FlushOnlyDelegates ==
    [][flushes' # flushes =>
          /\ \E s \in Streams :
                 flushes' = Append(flushes, [stream |-> s, pending |-> Len(linebits[s])])
          /\ UNCHANGED <<linebits, lock, pending_ship, queue, pc, frame, nwrites,
                         printed, appended, logged, started, answers, raised>>]_vars

\* flush() was called while a fragment was pending and its pushed flush was
\* waiting; the fragment is still pending and nothing was logged.
C17_Witness ==
    /\ \E i \in DOMAIN flushes : flushes[i].stream = Out /\ flushes[i].pending >= 1
    /\ Join(linebits[Out]) # <<>>
    /\ Queued(Out) # {}
    /\ logged = <<>>

\* ------------------------------------------------------------------ C19
\* C19: when the log sink raises in a flush, the exception leaves that flush
\* on its own thread (a step that makes no log call and ends the call the
\* thread is in), and the batch is gone for good: its fragments are in no log
\* call, not pending again and held by no flush, while each of them has had
\* its passthrough call.
C19_FailedBatchNotRetried ==
    /\ [](\A i \in DOMAIN raised : \A b \in DOMAIN raised[i].bits :
              LET s == raised[i].stream
                  n == raised[i].bits[b]
              IN /\ ~Shipped(n)
                 /\ \A j \in DOMAIN linebits[s] : linebits[s][j].id # n
                 /\ \A t \in Holding(s) : Occ(frame[t].bits, n) = 0
                 /\ PrintedOnce(s, n, TextOf(s, n)))
    /\ [][raised' # raised =>
             /\ Len(raised') = Len(raised) + 1
             /\ raised'[Len(raised')].bits # <<>>
             /\ pc[raised'[Len(raised')].t] = "s_log"
             /\ pc'[raised'[Len(raised')].t] = "idle"
             /\ raised'[Len(raised')].bits = frame[raised'[Len(raised')].t].bits
             /\ logged' = logged]_vars

\* The log sink raised on the first line; the second line, written after it,
\* was logged.
C19_Witness ==
    /\ Len(raised) = 1
    /\ Len(logged) = 1
    /\ \A b \in DOMAIN raised[1].bits : \A c \in DOMAIN logged[1].bits :
           raised[1].bits[b] < logged[1].bits[c]
    /\ linebits[Out] = <<>>

\* ------------------------------------------------------------------ C20
\* C20: isatty() returns what the underlying stream's isatty() returns and
\* changes nothing of the redirect: fragments, lock, flag, queue, sink
\* histories and threads stay as they were.
C20_IsattyOnlyDelegates ==
    [][answers' # answers =>
          /\ Len(answers') = Len(answers) + 1
          /\ SubSeq(answers', 1, Len(answers)) = answers
          /\ answers'[Len(answers')].ret = answers'[Len(answers')].original
          /\ UNCHANGED <<linebits, lock, pending_ship, queue, pc, frame, nwrites,
                         printed, appended, logged, started, flushes, raised>>]_vars

\* isatty() answered false for a stream that is no terminal and true for one
\* that is, one of the calls with a fragment pending.
C20_Witness ==
    /\ \E i, j \in DOMAIN answers :
           /\ ~answers[i].ret /\ ~answers[i].original
           /\ answers[j].ret /\ answers[j].original
           /\ answers[j].pending >= 1
    /\ Join(linebits[Out]) # <<>>

\* ------------------------------------------------------------------ C21
\* The positions at which a thread is under `with self._lock:`.
Locked == {"w_append", "s_body"}

\* The threads that are inside the critical section of stream s.
Inside(s) == {t \in Threads : pc[t] \in Locked /\ frame[t].stream = s}

\* C21: the lock of a stream is never held while a sink is invoked.  A thread
\* owns a lock only between its acquire and the end of the `with` block; a
\* thread that calls the passthrough sink (from idle, leaving it at w_lock),
\* that is inside the log sink (s_log), that is about to push or that has
\* returned, the early return of _shiplog included, owns no lock.
C21_SinksOutsideLock ==
    \A s \in Streams : \A t \in Threads :
        lock[s] = t => pc[t] \in Locked /\ frame[t].stream = s

\* A thread is inside the log sink with the batch it took while its stream's
\* lock is held by another thread, which is joining the fragments.
C21_Witness ==
    \E t, u \in Threads :
        /\ t # u
        /\ pc[t] = "s_log"
        /\ frame[t].bits # <<>>
        /\ lock[frame[t].stream] = u
        /\ pc[u] = "s_body"

\* ------------------------------------------------------------------ C22
\* C22: self._linebits is read, appended to and replaced only by the thread
\* that holds the stream's lock, and at most one thread is inside the
\* critical section of a stream: whoever is inside owns the lock, every step
\* that changes the fragments is taken by the owner of the lock from inside,
\* and every step that leaves the critical section (the join of line 50 is
\* read there) is taken by the owner.
C22_FragmentsUnderLock ==
    /\ [](\A s \in Streams :
              /\ Cardinality(Inside(s)) <= 1
              /\ \A t \in Inside(s) : lock[s] = t)
    /\ [][\A s \in Streams :
              /\ linebits'[s] # linebits[s] =>
                     /\ lock[s] \in Inside(s)
                     /\ pc'[lock[s]] # pc[lock[s]]
              /\ \A t \in Inside(s) : pc'[t] # pc[t] => lock[s] = t]_vars

\* A writer is joining the pending fragments under the lock while the
\* owner thread, running a pushed flush, waits for the same lock.
C22_Witness ==
    \E t \in Threads \ {Owner} :
        /\ pc[t] = "s_body" /\ lock[Out] = t /\ linebits[Out] # <<>>
        /\ pc[Owner] = "s_lock" /\ frame[Owner].stream = Out
        /\ frame[Owner].deferred

\* ------------------------------------------------------------------ C23
\* C23: no interleaving of writers and pushed flushes deadlocks on the lock.
\* Every thread that is inside write() or _shiplog(), the owner thread and
\* the calls a sink makes from inside a write or a flush included, gets back
\* to where no call of it is in progress, as long as the sinks return.
C23_EveryCallCompletes ==
    \A t \in Threads :
        (pc[t] # "idle" \/ stack[t] # <<>>) ~> (pc[t] = "idle" /\ stack[t] = <<>>)

\* On the owner thread, the log sink of a pushed flush wrote a line to the
\* stream it serves; that write shipped its line, in a log call made after
\* the one it came from, and returned into the sink.
C23_Witness ==
    /\ pc[Owner] = "idle"
    /\ Len(stack[Owner]) = 1
    /\ stack[Owner][1].pc = "s_in"
    /\ stack[Owner][1].frame.deferred
    /\ \E i, j \in DOMAIN logged :
           /\ i < j
           /\ logged[i].t = Owner /\ logged[i].bits = stack[Owner][1].frame.bits
           /\ logged[j].t = Owner /\ logged[j].bits = <<nwrites>>

\* ------------------------------------------------------------------ C24
\* C24: whenever a flush that found fragments pending releases the lock,
\* no fragment is pending: every step that leaves the critical section of
\* _shiplog with a non-empty self._linebits leaves it empty, also when the
\* fragments found are all empty strings.
C24_FlushClearsAll ==
    [][\A t \in Threads :
           LET s == frame[t].stream
           IN (pc[t] = "s_body" /\ pc'[t] # "s_body" /\ linebits[s] # <<>>)
                  => linebits'[s] = <<>>]_vars

\* ------------------------------------------------------------------ C25
\* C25: self._pending_ship of a stream is set when a flush is pushed to the
\* owner thread and cleared when that flush starts, so it is true in exactly
\* the states in which a pushed flush of the stream is queued and not yet
\* started.
C25_FlagTracksQueue ==
    \A s \in Streams : pending_ship[s] <=> Queued(s) # {}

\* ------------------------------------------------------------------ C26
\* C26: _ba.log gets the empty line exactly when the batch its flush took
\* joins to a single line terminator, and a batch that joins to the empty
\* string never reaches _ba.log: no thread stands before the sink with an
\* empty joined line, and no call of the sink carries an empty batch.
C26_EmptyLineIffLoneTerminator ==
    /\ \A i \in DOMAIN logged :
           LET batch == Concat(logged[i].stream, logged[i].bits)
           IN /\ batch # <<>>
              /\ logged[i].line = <<>> <=> batch = <<NL>>
    /\ \A t \in Threads : pc[t] = "s_log" => frame[t].line # <<>>

\* The empty line was logged for a batch of two fragments, an empty text and
\* a lone terminator.
C26_Witness ==
    \E i \in DOMAIN logged :
        /\ logged[i].line = <<>>
        /\ Len(logged[i].bits) = 2
        /\ Concat(logged[i].stream, logged[i].bits) = <<NL>>

\* ------------------------------------------------------------------ C27
\* C27: when the passthrough sink raises during write(text), the exception
\* leaves write() and the redirect is as it was before the call: the text is
\* not appended, no flush runs and none is pushed for that write.  The step
\* of the failure changes neither fragments, lock, queue nor log calls and
\* leaves the writer outside any call, and the text of the failed write is
\* never pending, never in a batch and never logged afterwards.
C27_RefusedWriteLeavesNoTrace ==
    /\ [](\A i \in DOMAIN refused :
              LET s == refused[i].stream
                  n == refused[i].id
              IN /\ \A j \in DOMAIN linebits[s] : linebits[s][j].id # n
                 /\ \A j \in DOMAIN appended[s] : appended[s][j].id # n
                 /\ \A j \in DOMAIN logged : Occ(logged[j].bits, n) = 0
                 /\ \A t \in Threads : frame[t].id # n)
    /\ [][refused' # refused =>
             /\ Len(refused') = Len(refused) + 1
             /\ pc[refused'[Len(refused')].t] = "idle"
             /\ pc' = pc
             /\ linebits' = linebits
             /\ lock' = lock
             /\ queue' = queue
             /\ logged' = logged
             /\ pending_ship' = pending_ship]_vars

\* The passthrough sink raised on a bare fragment written while another
\* fragment was pending; a later flush shipped the pending one alone.
C27_Witness ==
    /\ Len(refused) = 1
    /\ refused[1].id = 2
    /\ refused[1].sval = <<Mark(2)>>
    /\ Len(logged) = 1
    /\ logged[1].bits = <<1>>
    /\ logged[1].deferred
    /\ queue = <<>>

\* ------------------------------------------------------------------ C28
\* The stream of the call thread t is in before or after a step.
CallOf(t) == IF frame[t].stream # NoStream THEN frame[t].stream ELSE frame'[t].stream

\* C28: the redirects of sys.stdout and sys.stderr are independent.  A step
\* of a write or a flush on one stream leaves the other stream's fragments
\* and lock as they were; a thread that waits for its stream's lock goes on
\* as soon as that lock is free, whoever holds the other one; and every
\* logged line is made of fragments written to the stream it is logged for.
C28_StreamsIndependent ==
    /\ [](/\ \A t \in Threads :
                 (pc[t] \in {"w_lock", "s_lock"} /\ lock[frame[t].stream] = NoThread)
                     => ENABLED Run(t)
          /\ \A i \in DOMAIN logged : \A b \in DOMAIN logged[i].bits :
                 \E k \in DOMAIN appended[logged[i].stream] :
                     appended[logged[i].stream][k].id = logged[i].bits[b])
    /\ [][\A t \in Threads : \A s \in Streams :
              (pc'[t] # pc[t] /\ s # CallOf(t))
                  => linebits'[s] = linebits[s] /\ lock'[s] = lock[s]]_vars

\* A line of sys.stderr was logged while a fragment of sys.stdout, written
\* before it, is still pending, and the locks of both streams are held, by
\* two threads.
C28_Witness ==
    \E t, u \in Threads :
        /\ t # u
        /\ lock["stdout"] = t
        /\ lock["stderr"] = u
        /\ linebits["stdout"] # <<>>
        /\ \E i \in DOMAIN logged :
               /\ logged[i].stream = "stderr"
               /\ \E j \in DOMAIN linebits["stdout"] :
                      linebits["stdout"][j].id < logged[i].bits[1]
====
